---- MODULE Spec2Model ----
(***************************************************************************)
(* rusty-html-extractor (src/src/main.rs): main resolves the command line  *)
(* into Options, parse unpacks the zip archive into the scratch directory, *)
(* walks the entries in index order, renders the HTML ones into the output *)
(* text file and copies the others under the output directory, and main    *)
(* then removes the scratch directory.                                     *)
(*                                                                         *)
(* Text is a sequence of atoms (words and the atom "\n"); an entry name is *)
(* a sequence of path components and "/" atoms; a path under the output    *)
(* directory is the sequence of its components.  The zip reader, the       *)
(* `file` utility and html2text are external: they are modelled by what    *)
(* the call sites rely on (tables over the bounded contents below), and    *)
(* every fallible call may also fail for a reason of the environment       *)
(* while the fault budget lasts.  The output paths are taken to lie        *)
(* outside the scratch directory and apart from the input file, and the    *)
(* output text file outside the output directory.  opts.width is handed to *)
(* the renderer as it is (u32 to usize never fails on the 64-bit target).  *)
(***************************************************************************)
EXTENDS Integers, Sequences, FiniteSets, TLC

\* ---- bounds of the model -------------------------------------------------
MaxEntries == 3
MaxFaults == 1

\* ---- Options::default (lines 18-29) --------------------------------------
DefaultWidth == 80

EXTRACT_PATH == <<"tmp", "rusty-html-extractor">>

DefaultOptions ==
    [ width            |-> DefaultWidth,
      file_artifacts   |-> FALSE,
      output_format    |-> "trivial",
      output_text_file |-> "./html_text.txt",
      output_dir       |-> "./rest",
      input_file       |-> "" ]

\* ---- error display texts (lines 58-89) -----------------------------------
ZipErrorMsg == "Zip error occured"
ParseIntErrorMsg == "Not a number."
NotFoundMsg == "No such file or directory (os error 2)"
IoFaultMsg == "Input/output error (os error 5)"

\* ---- sequences ------------------------------------------------------------
RECURSIVE Concat(_)
Concat(ss) == IF ss = <<>> THEN <<>> ELSE Head(ss) \o Concat(Tail(ss))

\* .filter(|l| !l.is_empty()) (line 153)
RECURSIVE DropEmpty(_)
DropEmpty(ls) ==
    IF ls = <<>> THEN <<>>
    ELSE (IF Head(ls) = <<>> THEN <<>> ELSE <<Head(ls)>>) \o DropEmpty(Tail(ls))

\* str::lines (line 152): split at "\n"; a final line needs no terminator
\* and a trailing terminator opens no further line.
RECURSIVE LinesFrom(_, _)
LinesFrom(s, cur) ==
    IF s = <<>> THEN (IF cur = <<>> THEN <<>> ELSE <<cur>>)
    ELSE IF Head(s) = "\n" THEN <<cur>> \o LinesFrom(Tail(s), <<>>)
    ELSE LinesFrom(Tail(s), Append(cur, Head(s)))

Lines(s) == LinesFrom(s, <<>>)

\* [String]::join (line 156)
RECURSIVE Join(_, _)
Join(ls, sep) ==
    IF ls = <<>> THEN <<>>
    ELSE IF Len(ls) = 1 THEN Head(ls)
    ELSE Head(ls) \o <<sep>> \o Join(Tail(ls), sep)

\* lines 151-156: the text handed to write_all
FilteredText(html_text) == Join(DropEmpty(Lines(html_text)), "\n")

\* format!("# begin {}\n", name) and format!("# end {}\n", name)
BeginMarker(name) == <<"# begin ">> \o name \o <<"\n">>
EndMarker(name) == <<"# end ">> \o name \o <<"\n">>

\* ---- archive contents (bounded) -----------------------------------------
HtmlTwo == <<"<html>", "<p>", "Hi", "Yo", "</p>", "<p>", "Ok", "</p>">>
HtmlBold == <<"<html>", "<b>", "Bye", "</b>">>
TxtHello == <<"hel", "lo">>
NoBytes == <<>>

\* ---- the `file` utility and the test of lines 116-124 --------------------
IsPrefix(p, s) == Len(p) <= Len(s) /\ SubSeq(s, 1, Len(p)) = p

Contains(s, pat) ==
    \E k \in 0..Len(s) : k + Len(pat) <= Len(s) /\ SubSeq(s, k + 1, k + Len(pat)) = pat

ToLowerAtom(a) ==
    CASE a = "HTML" -> "html"
      [] a = "ASCII" -> "ascii"
      [] OTHER -> a

ToLowercase(s) == [k \in DOMAIN s |-> ToLowerAtom(s[k])]

\* what `file <scratch>/<name>` prints for the extracted copy
FileStdout(copy) ==
    CASE copy.kind = "none" -> <<"cannot", " ", "open">>
      [] copy.kind = "dir" -> <<"directory">>
      [] IsPrefix(<<"<html>">>, copy.bytes) ->
            <<"HTML", " ", "document", ",", " ", "ASCII", " ", "text">>
      [] OTHER -> <<"ASCII", " ", "text">>

SniffsHtml(copy) == Contains(ToLowercase(FileStdout(copy)), <<"html", " ", "document">>)

\* ---- html2text::from_read_with_decorator (lines 133-150) -----------------
CharLen(a) == IF a = "Bye" THEN 3 ELSE IF a = " " THEN 1 ELSE 2

RECURSIVE Width(_)
Width(line) == IF line = <<>> THEN 0 ELSE CharLen(Head(line)) + Width(Tail(line))

Flush(line) == IF line = <<>> THEN <<>> ELSE line \o <<"\n">>

RECURSIVE RenderFrom(_, _, _, _)
RenderFrom(toks, fmt, width, line) ==
    IF toks = <<>> THEN Flush(line)
    ELSE LET t == Head(toks)
             rest == Tail(toks)
         IN CASE t = "<html>" -> RenderFrom(rest, fmt, width, line)
              [] t = "<p>" -> Flush(line) \o RenderFrom(rest, fmt, width, <<>>)
              [] t = "</p>" -> Flush(line) \o <<"\n">> \o RenderFrom(rest, fmt, width, <<>>)
              [] t \in {"<b>", "</b>"} ->
                    RenderFrom(rest, fmt, width,
                               IF fmt = "plain" THEN Append(line, "**") ELSE line)
              [] OTHER ->
                    IF line = <<>> \/ line[Len(line)] = "**"
                    THEN RenderFrom(rest, fmt, width, Append(line, t))
                    ELSE IF Width(line) + 1 + CharLen(t) <= width
                    THEN RenderFrom(rest, fmt, width, line \o <<" ", t>>)
                    ELSE Flush(line) \o RenderFrom(rest, fmt, width, <<t>>)

Render(bytes, fmt, width) == RenderFrom(bytes, fmt, width, <<>>)

\* ---- entry names and paths -----------------------------------------------
RECURSIVE Comps(_)
Comps(name) ==
    IF name = <<>> THEN <<>>
    ELSE (IF Head(name) = "/" THEN <<>> ELSE <<Head(name)>>) \o Comps(Tail(name))

RECURSIVE StaysInside(_, _)
StaysInside(comps, depth) ==
    IF comps = <<>> THEN TRUE
    ELSE IF Head(comps) = ".." THEN depth > 0 /\ StaysInside(Tail(comps), depth - 1)
    ELSE StaysInside(Tail(comps), depth + 1)

\* ZipFile::enclosed_name (line 108): Some(path) iff the name is relative
\* and never climbs above its root
EnclosedName(name) == name # <<>> /\ Head(name) # "/" /\ StaysInside(Comps(name), 0)

\* fname.to_str().unwrap().ends_with('/') (line 113)
EndsWithSlashMut(fname) == FALSE
EndsWithSlash(fname) == fname # <<>> /\ fname[Len(fname)] = "/"

Parent(path) == SubSeq(path, 1, Len(path) - 1)

Prefixes(path) == { SubSeq(path, 1, k) : k \in 1..Len(path) }

\* ---- the command line and the environment (bounded) ----------------------
Formats == {"trivial", "plain", "rich"}

\* one record per command line: ok = hp parsed it, i/o/a = flag present,
\* w/f = the flag's value ("none" when the flag is absent)
Cmd(ok, i, o, w, a, f) == [ok |-> ok, i |-> i, o |-> o, w |-> w, a |-> a, f |-> f]

CmdLines ==
    { Cmd(TRUE, TRUE, FALSE, "none", FALSE, "none"),
      Cmd(TRUE, TRUE, FALSE, "none", TRUE, "none"),
      Cmd(TRUE, TRUE, TRUE, "none", FALSE, "plain"),
      Cmd(TRUE, TRUE, FALSE, "3", TRUE, "rich"),
      Cmd(TRUE, TRUE, FALSE, "3", FALSE, "trivial"),
      Cmd(TRUE, TRUE, FALSE, "x", FALSE, "none"),
      Cmd(TRUE, TRUE, TRUE, "none", TRUE, "bogus"),
      Cmd(TRUE, TRUE, FALSE, "x", FALSE, "bogus"),
      Cmd(TRUE, FALSE, FALSE, "none", FALSE, "none"),
      Cmd(FALSE, FALSE, FALSE, "none", FALSE, "none") }

HpErrorText == "hp: unexpected argument"

InputKinds == {"missing", "notzip", "zip"}

Entry(name, bytes) == [name |-> name, bytes |-> bytes]

EntryPool ==
    { Entry(<<"a.html">>, HtmlTwo),
      Entry(<<"sub", "/">>, NoBytes),
      Entry(<<"sub", "/", "b.txt">>, TxtHello),
      Entry(<<"sub", "/", "c.html">>, HtmlBold),
      Entry(<<"..", "/", "e">>, TxtHello) }

\* archives of up to MaxEntries entries with distinct names
Archives ==
    { a \in UNION { [1..n -> EntryPool] : n \in 0..MaxEntries } :
        \A j, k \in DOMAIN a : j # k => a[j] # a[k] }

\* the output locations before the run: nothing there, or left by earlier use
Worlds == {"fresh", "stale"}

TextFile0(w) ==
    IF w = "fresh" THEN [exists |-> FALSE, data |-> <<>>]
    ELSE [exists |-> TRUE, data |-> <<"old", "\n">>]

OutDir0(w) ==
    IF w = "fresh" THEN [exists |-> FALSE, dirs |-> {}, files |-> {}]
    ELSE [exists |-> TRUE, dirs |-> {<<"sub">>},
          files |-> {[path |-> <<"sub", "b.txt">>, bytes |-> <<"stale">>]}]

NoScratch == [exists |-> FALSE, copies |-> {}]
Scratch0(leftover) == IF leftover THEN [exists |-> TRUE, copies |-> {}] ELSE NoScratch

\* ---- state ----------------------------------------------------------------
VARIABLES
    pc,          \* position in main / parse
    args,        \* the command line
    inputKind,   \* what lies at the input path
    archive,     \* the entries of the zip archive, in index order
    world,       \* the output locations before the first run
    leftover,    \* whether a scratch directory lay at EXTRACT_PATH before it
    zipStrict,   \* whether the zip reader's extract rejects an unplaceable name
    opts,        \* Options handed to parse
    textFile,    \* the file at opts.output_text_file
    outDir,      \* the tree at opts.output_dir
    scratch,     \* the tree at EXTRACT_PATH
    i,           \* loop index of line 105 (0-based)
    printed,     \* lines printed to standard output
    parseRes,    \* what parse returned
    result,      \* what main returned
    faults,      \* failures of the environment so far
    faultCap,    \* how many the environment may cause
    failLog,     \* every failed call: [op, idx]
    sniffed,     \* indices handed to `file`, in call order
    wrote,       \* indices whose text reached the output text file, in order
    removeCalls, \* calls of remove_dir_all
    run,         \* 1 or 2: which run of the tool this is
    after1       \* the outputs as the first run left them

vars == <<pc, args, inputKind, archive, world, leftover, zipStrict, opts, textFile, outDir, scratch, i,
          printed, parseRes, result, faults, faultCap, failLog, sniffed, wrote,
          removeCalls, run, after1>>

inputs == <<args, inputKind, archive, world, leftover, zipStrict, faultCap>>

None == [st |-> "none", msg |-> ""]
Ok == [st |-> "Ok", msg |-> ""]
Err(msg) == [st |-> "Err", msg |-> msg]

InitWith(cap) ==
    /\ pc = "main"
    /\ args \in CmdLines
    /\ inputKind \in InputKinds
    /\ archive \in (IF inputKind = "zip" THEN Archives ELSE {<<>>})
    /\ world \in Worlds
    /\ opts = DefaultOptions
    /\ textFile = TextFile0(world)
    /\ outDir = OutDir0(world)
    /\ leftover \in BOOLEAN
    /\ zipStrict \in (IF \E k \in DOMAIN archive : ~EnclosedName(archive[k].name)
                      THEN BOOLEAN ELSE {FALSE})
    /\ scratch = Scratch0(leftover)
    /\ i = 0
    /\ printed = <<>>
    /\ parseRes = None
    /\ result = None
    /\ faults = 0
    /\ faultCap = cap
    /\ failLog = <<>>
    /\ sniffed = <<>>
    /\ wrote = <<>>
    /\ removeCalls = 0
    /\ run = 1
    /\ after1 = [text |-> TextFile0(world), out |-> OutDir0(world)]

Init == InitWith(MaxFaults)

CanFault == faults < faultCap

Failed(op, idx) == failLog' = Append(failLog, [op |-> op, idx |-> idx])

\* the environment makes the call fail
Fault(op, idx) == CanFault /\ faults' = faults + 1 /\ Failed(op, idx)

\* parse returns Err(e) to main (the ? operator and line 93)
ParseFails(e) == parseRes' = Err(e) /\ pc' = "parsed"

\* outcomes of a fallible call: TRUE = it succeeds
Outcomes == IF CanFault THEN BOOLEAN ELSE {TRUE}

NoFailure == UNCHANGED <<faults, failLog>>

\* ---- main, lines 215-240 --------------------------------------------------
\* str::parse::<u32> (line 227)
ParsesAsU32Mut(tok) == TRUE
ParsesAsU32(tok) == tok = "3"

U32Value(tok) == IF tok = "3" THEN 3 ELSE DefaultWidth

\* the three literal arms of the match of lines 234-239
MatchFormatMut(str) == TRUE
MatchFormat(str) == str \in {"plain", "trivial", "rich"}

WithInput == [DefaultOptions EXCEPT !.input_file = "in.zip"]

WithOutput(o) ==
    IF args.o THEN [o EXCEPT !.output_text_file = "out.txt", !.output_dir = "out"] ELSE o

WithWidth(o) == IF args.w # "none" THEN [o EXCEPT !.width = U32Value(args.w)] ELSE o

WithArtifacts(o) == IF args.a THEN [o EXCEPT !.file_artifacts = TRUE] ELSE o

WithFormat(o) == IF args.f # "none" THEN [o EXCEPT !.output_format = args.f] ELSE o

MainArgs ==
    /\ pc = "main"
    /\ IF ~args.ok
       THEN \* line 247
            /\ printed' = Append(printed, <<HpErrorText>>)
            /\ result' = Ok
            /\ pc' = "exit"
            /\ UNCHANGED opts
       ELSE IF ~args.i
       THEN \* line 218 false, line 249
            /\ result' = Ok
            /\ pc' = "exit"
            /\ UNCHANGED <<opts, printed>>
       ELSE IF args.w # "none" /\ ~ParsesAsU32(args.w)
       THEN \* line 227, the ? operator
            /\ result' = Err(ParseIntErrorMsg)
            /\ pc' = "exit"
            /\ opts' = WithOutput(WithInput)
            /\ UNCHANGED printed
       ELSE IF args.f # "none" /\ ~MatchFormat(args.f)
       THEN \* line 238
            /\ result' = Err("Unrecognized format.")
            /\ pc' = "exit"
            /\ opts' = WithArtifacts(WithWidth(WithOutput(WithInput)))
            /\ UNCHANGED printed
       ELSE \* line 241: parse(opts) is called
            /\ opts' = WithFormat(WithArtifacts(WithWidth(WithOutput(WithInput))))
            /\ pc' = "parse"
            /\ UNCHANGED <<result, printed>>
    /\ NoFailure
    /\ UNCHANGED <<inputs, textFile, outDir, scratch, i, parseRes, sniffed, wrote,
                   removeCalls, run, after1>>

\* ---- parse, lines 91-104 --------------------------------------------------
\* PathBuf::exists (line 92)
InputExistsMut(kind) == TRUE
InputExists(kind) == kind # "missing"

ParseExists ==
    /\ pc = "parse"
    /\ IF ~InputExists(inputKind)
       THEN ParseFails("Input file does not exist")
       ELSE pc' = "open" /\ UNCHANGED parseRes
    /\ NoFailure
    /\ UNCHANGED <<inputs, opts, textFile, outDir, scratch, i, printed, result,
                   sniffed, wrote, removeCalls, run, after1>>

\* File::open (line 95)
OpenInput ==
    /\ pc = "open"
    /\ \E ok \in Outcomes :
          IF inputKind = "missing"
          THEN Failed("open", -1) /\ UNCHANGED faults /\ ParseFails(NotFoundMsg)
          ELSE IF ~ok
          THEN Fault("open", -1) /\ ParseFails(IoFaultMsg)
          ELSE pc' = "zip" /\ NoFailure /\ UNCHANGED parseRes
    /\ UNCHANGED <<inputs, opts, textFile, outDir, scratch, i, printed, result,
                   sniffed, wrote, removeCalls, run, after1>>

\* ZipArchive::new (line 96): the central directory is found and read
ZipArchiveNewMut(kind) == TRUE
ZipArchiveNew(kind) == kind = "zip"

ZipNew ==
    /\ pc = "zip"
    /\ \E ok \in Outcomes :
          IF ~ZipArchiveNew(inputKind)
          THEN Failed("zip", -1) /\ UNCHANGED faults /\ ParseFails(ZipErrorMsg)
          ELSE IF ~ok
          THEN Fault("zip", -1) /\ ParseFails(ZipErrorMsg)
          ELSE pc' = "extract" /\ NoFailure /\ UNCHANGED parseRes
    /\ UNCHANGED <<inputs, opts, textFile, outDir, scratch, i, printed, result,
                   sniffed, wrote, removeCalls, run, after1>>

\* the copy ZipArchive::extract leaves for an entry
CopyOfEntry(e) ==
    [name |-> e.name, kind |-> IF EndsWithSlash(e.name) THEN "dir" ELSE "file",
     bytes |-> e.bytes]

\* the scratch tree after the first n entries were extracted: an entry
\* replaces what lay at its name, an entry with no enclosed name is left out
RECURSIVE Extracted(_, _, _)
Extracted(copies, entries, n) ==
    IF n = 0 THEN copies
    ELSE LET before == Extracted(copies, entries, n - 1)
             e == entries[n]
         IN IF EnclosedName(e.name)
            THEN { c \in before : c.name # e.name } \cup {CopyOfEntry(e)}
            ELSE before

\* the scratch tree once the first n entries are extracted; whether the
\* directory itself is made when no entry was written is left to the zip
\* reader (made = it is)
AfterExtract(tree, entries, n, made) ==
    [exists |-> tree.exists \/ made \/ \E k \in 1..n : EnclosedName(entries[k].name),
     copies |-> Extracted(tree.copies, entries, n)]

\* index of the first entry with no enclosed name, 0 when there is none
FirstUnplaceable(entries) ==
    IF \A k \in DOMAIN entries : EnclosedName(entries[k].name) THEN 0
    ELSE CHOOSE k \in DOMAIN entries :
            /\ ~EnclosedName(entries[k].name)
            /\ \A j \in 1..(k - 1) : EnclosedName(entries[j].name)

\* archive.extract (line 97)
Extract ==
    /\ pc = "extract"
    /\ \E ok \in Outcomes, made \in BOOLEAN :
          IF zipStrict /\ FirstUnplaceable(archive) # 0
          THEN /\ Failed("extract", -1)
               /\ UNCHANGED faults
               /\ ParseFails(ZipErrorMsg)
               /\ scratch' = AfterExtract(scratch, archive,
                                          FirstUnplaceable(archive) - 1, made)
          ELSE IF ~ok
          THEN /\ Fault("extract", -1)
               /\ ParseFails(ZipErrorMsg)
               /\ \E n \in 0..Len(archive) :
                     scratch' = AfterExtract(scratch, archive, n, made)
          ELSE /\ scratch' = AfterExtract(scratch, archive, Len(archive), made)
               /\ pc' = "opentext"
               /\ NoFailure
               /\ UNCHANGED parseRes
    /\ UNCHANGED <<inputs, opts, textFile, outDir, i, printed, result, sniffed,
                   wrote, removeCalls, run, after1>>

\* OpenOptions write + create + truncate (lines 98-102): the data the file
\* holds once it is open
OpenTruncateMut(data) == data
OpenTruncate(data) == <<>>

OpenText ==
    /\ pc = "opentext"
    /\ \E ok \in Outcomes :
          IF ~ok
          THEN Fault("opentext", -1) /\ ParseFails(IoFaultMsg) /\ UNCHANGED textFile
          ELSE /\ textFile' = [exists |-> TRUE, data |-> OpenTruncate(textFile.data)]
               /\ pc' = "mkout"
               /\ NoFailure
               /\ UNCHANGED parseRes
    /\ UNCHANGED <<inputs, opts, outDir, scratch, i, printed, result, sniffed,
                   wrote, removeCalls, run, after1>>

\* create_dir_all(opts.output_dir) (line 103)
MkOutDir ==
    /\ pc = "mkout"
    /\ \E ok \in Outcomes :
          IF ~ok
          THEN Fault("mkout", -1) /\ ParseFails(IoFaultMsg) /\ UNCHANGED outDir
          ELSE /\ outDir' = [outDir EXCEPT !.exists = TRUE]
               /\ pc' = "loop"
               /\ NoFailure
               /\ UNCHANGED parseRes
    /\ UNCHANGED <<inputs, opts, textFile, scratch, i, printed, result, sniffed,
                   wrote, removeCalls, run, after1>>

\* ---- parse, the loop of lines 105-168 -------------------------------------
Cur == archive[i + 1]

NoCopy(name) == [name |-> name, kind |-> "none", bytes |-> <<>>]

\* what lies at EXTRACT_PATH.join(name) (line 118)
CopyAt(copies, name) ==
    IF \E c \in copies : c.name = name
    THEN CHOOSE c \in copies : c.name = name
    ELSE NoCopy(name)

\* lines 108-125: which branch the entry takes
Classification(e, copies) ==
    IF ~EnclosedName(e.name) THEN "skip"
    ELSE IF EndsWithSlash(e.name) THEN "dir"
    ELSE IF SniffsHtml(CopyAt(copies, e.name)) THEN "html"
    ELSE "other"

\* the branches that run the `file` process (lines 116-124)
RunsFile(class) == class \in {"html", "other"}

BranchPc(class) ==
    CASE class = "skip" -> "loop"
      [] class = "dir" -> "dir"
      [] class = "html" -> "begin"
      [] class = "other" -> "copy"

ClassifyOutcomes == IF CanFault THEN {"ok", "by_index", "spawn"} ELSE {"ok"}

\* by_index, enclosed_name, the directory test and the sniffing test
Classify ==
    /\ pc = "loop"
    /\ i < Len(archive)
    /\ LET class == Classification(Cur, scratch.copies)
       IN \E out \in ClassifyOutcomes :
             IF out = "by_index"
             THEN Fault("by_index", i) /\ ParseFails(ZipErrorMsg) /\ UNCHANGED <<i, sniffed>>
             ELSE IF out = "spawn" /\ RunsFile(class)
             THEN Fault("spawn", i) /\ ParseFails(IoFaultMsg) /\ UNCHANGED <<i, sniffed>>
             ELSE /\ pc' = BranchPc(class)
                  /\ i' = IF class = "skip" THEN i + 1 ELSE i
                  /\ sniffed' = IF RunsFile(class) THEN Append(sniffed, i) ELSE sniffed
                  /\ NoFailure
                  /\ UNCHANGED parseRes
    /\ UNCHANGED <<inputs, opts, textFile, outDir, scratch, printed, result, wrote,
                   removeCalls, run, after1>>

\* line 169
LoopDone ==
    /\ pc = "loop"
    /\ i = Len(archive)
    /\ parseRes' = Ok
    /\ pc' = "parsed"
    /\ NoFailure
    /\ UNCHANGED <<inputs, opts, textFile, outDir, scratch, i, printed, result,
                   sniffed, wrote, removeCalls, run, after1>>

IsFile(tree, path) == \E f \in tree.files : f.path = path
IsDir(tree, path) == tree.exists /\ (path = <<>> \/ path \in tree.dirs)

\* create_dir_all(output_dir.join(fname)) (lines 114-115)
DirEntry ==
    /\ pc = "dir"
    /\ LET path == Comps(Cur.name)
       IN \E ok \in Outcomes :
             IF \E q \in Prefixes(path) : IsFile(outDir, q)
             THEN Failed("create_dir_all", i) /\ UNCHANGED <<faults, outDir, i>>
                  /\ ParseFails("File exists (os error 17)")
             ELSE IF ~ok
             THEN Fault("create_dir_all", i) /\ ParseFails(IoFaultMsg) /\ UNCHANGED <<outDir, i>>
             ELSE /\ outDir' = [outDir EXCEPT !.dirs = @ \cup Prefixes(path)]
                  /\ i' = i + 1
                  /\ pc' = "loop"
                  /\ NoFailure
                  /\ UNCHANGED parseRes
    /\ UNCHANGED <<inputs, opts, textFile, scratch, printed, result, sniffed, wrote,
                   removeCalls, run, after1>>

\* Write::write: "full" writes the buffer, "short" returns Ok(n) with n
\* below its length, "err" returns Err and writes nothing
WriteOutcomes == IF CanFault THEN {"full", "short", "err"} ELSE {"full"}

Written(buf, out) ==
    CASE out = "full" -> buf
      [] out = "short" -> SubSeq(buf, 1, 1)
      [] out = "err" -> <<>>

\* the marker writes of lines 126-132 and 157-163: .ok() drops the result
MarkerWrite(marker, op) ==
    \E out \in WriteOutcomes :
        /\ textFile' = [textFile EXCEPT !.data = @ \o Written(marker, out)]
        /\ wrote' = Append(wrote, [idx |-> i, data |-> Written(marker, out)])
        /\ IF out = "full" THEN NoFailure
           ELSE IF out = "short" THEN faults' = faults + 1 /\ UNCHANGED failLog
           ELSE Fault(op, i)

HtmlBegin ==
    /\ pc = "begin"
    /\ IF opts.file_artifacts
       THEN MarkerWrite(BeginMarker(Cur.name), "write_begin")
       ELSE NoFailure /\ UNCHANGED <<textFile, wrote>>
    /\ pc' = "body"
    /\ UNCHANGED <<inputs, opts, outDir, scratch, i, printed, parseRes, result,
                   sniffed, removeCalls, run, after1>>

\* lines 133-156: render by the format, drop the empty lines, write_all
HtmlBody ==
    /\ pc = "body"
    /\ IF opts.output_format \notin {"trivial", "plain", "rich"}
       THEN \* line 149
            /\ pc' = "panic"
            /\ NoFailure
            /\ UNCHANGED <<textFile, wrote, parseRes>>
       ELSE LET html_text == Render(Cur.bytes, opts.output_format, opts.width)
                txt == FilteredText(html_text)
            IN \E ok \in Outcomes :
                  IF ~ok
                  THEN /\ Fault("write_all", i)
                       /\ ParseFails(IoFaultMsg)
                       /\ \E n \in {0, 1} :
                             /\ n < Len(txt) \/ n = 0
                             /\ textFile' = [textFile EXCEPT !.data = @ \o SubSeq(txt, 1, n)]
                             /\ wrote' = Append(wrote, [idx |-> i, data |-> SubSeq(txt, 1, n)])
                  ELSE /\ textFile' = [textFile EXCEPT !.data = @ \o txt]
                       /\ wrote' = Append(wrote, [idx |-> i, data |-> txt])
                       /\ pc' = "end"
                       /\ NoFailure
                       /\ UNCHANGED parseRes
    /\ UNCHANGED <<inputs, opts, outDir, scratch, i, printed, result, sniffed,
                   removeCalls, run, after1>>

HtmlEnd ==
    /\ pc = "end"
    /\ IF opts.file_artifacts
       THEN MarkerWrite(EndMarker(Cur.name), "write_end")
       ELSE NoFailure /\ UNCHANGED <<textFile, wrote>>
    /\ i' = i + 1
    /\ pc' = "loop"
    /\ UNCHANGED <<inputs, opts, outDir, scratch, printed, parseRes, result, sniffed,
                   removeCalls, run, after1>>

PutFile(files, path, bytes) ==
    { f \in files : f.path # path } \cup {[path |-> path, bytes |-> bytes]}

CopyOutcomes == IF CanFault THEN {"ok", "create", "copy"} ELSE {"ok"}

\* File::create(output_dir.join(fname)) and io::copy (lines 165-166)
CopyEntry ==
    /\ pc = "copy"
    /\ LET path == Comps(Cur.name)
       IN \E out \in CopyOutcomes :
             IF ~IsDir(outDir, Parent(path))
             THEN Failed("create", i) /\ UNCHANGED <<faults, outDir, i>>
                  /\ ParseFails(NotFoundMsg)
             ELSE IF IsDir(outDir, path)
             THEN Failed("create", i) /\ UNCHANGED <<faults, outDir, i>>
                  /\ ParseFails("Is a directory (os error 21)")
             ELSE IF out = "create"
             THEN Fault("create", i) /\ ParseFails(IoFaultMsg) /\ UNCHANGED <<outDir, i>>
             ELSE IF out = "copy"
             THEN /\ Fault("copy", i)
                  /\ ParseFails(IoFaultMsg)
                  /\ \E n \in 0..(Len(Cur.bytes) - 1) :
                        outDir' = [outDir EXCEPT
                                     !.files = PutFile(@, path, SubSeq(Cur.bytes, 1, n))]
                  /\ UNCHANGED i
             ELSE /\ outDir' = [outDir EXCEPT !.files = PutFile(@, path, Cur.bytes)]
                  /\ i' = i + 1
                  /\ pc' = "loop"
                  /\ NoFailure
                  /\ UNCHANGED parseRes
    /\ UNCHANGED <<inputs, opts, textFile, scratch, printed, result, sniffed, wrote,
                   removeCalls, run, after1>>

\* ---- main, lines 241-249 --------------------------------------------------
\* lines 241-243: what follows the call of parse
MainAfterParseMut ==
    /\ pc = "parsed"
    /\ IF parseRes.st = "Err"
       THEN /\ printed' = Append(printed, <<"ERROR OCCURED: ", parseRes.msg>>)
            /\ result' = Ok
            /\ pc' = "exit"
       ELSE pc' = "cleanup" /\ UNCHANGED <<printed, result>>
    /\ NoFailure
    /\ UNCHANGED <<inputs, opts, textFile, outDir, scratch, i, parseRes, sniffed,
                   wrote, removeCalls, run, after1>>

MainAfterParse ==
    /\ pc = "parsed"
    /\ printed' = IF parseRes.st = "Err"
                  THEN Append(printed, <<"ERROR OCCURED: ", parseRes.msg>>)
                  ELSE printed
    /\ pc' = "cleanup"
    /\ NoFailure
    /\ UNCHANGED <<inputs, opts, textFile, outDir, scratch, i, parseRes, result,
                   sniffed, wrote, removeCalls, run, after1>>

\* remove_dir_all(EXTRACT_PATH)? and Ok(()) (lines 244, 249)
Cleanup ==
    /\ pc = "cleanup"
    /\ removeCalls' = removeCalls + 1
    /\ \E ok \in Outcomes :
          IF ~scratch.exists
          THEN Failed("remove_dir_all", -1) /\ UNCHANGED <<faults, scratch>>
               /\ result' = Err(NotFoundMsg)
          ELSE IF ~ok
          THEN Fault("remove_dir_all", -1) /\ UNCHANGED scratch
               /\ result' = Err(IoFaultMsg)
          ELSE scratch' = NoScratch /\ result' = Ok /\ NoFailure
    /\ pc' = "exit"
    /\ UNCHANGED <<inputs, opts, textFile, outDir, i, printed, parseRes, sniffed,
                   wrote, run, after1>>

Next ==
    \/ MainArgs
    \/ ParseExists
    \/ OpenInput
    \/ ZipNew
    \/ Extract
    \/ OpenText
    \/ MkOutDir
    \/ Classify
    \/ LoopDone
    \/ DirEntry
    \/ HtmlBegin
    \/ HtmlBody
    \/ HtmlEnd
    \/ CopyEntry
    \/ MainAfterParse
    \/ Cleanup

Spec == Init /\ [][Next]_vars

\* ---- the tool run twice on the same command line, with no failure of the
\* ---- environment ---------------------------------------------------------
InitTwice == InitWith(0)

\* the process has ended; the same command line is started again
Rerun ==
    /\ pc = "exit"
    /\ run = 1
    /\ run' = 2
    /\ after1' = [text |-> textFile, out |-> outDir]
    /\ pc' = "main"
    /\ opts' = DefaultOptions
    /\ i' = 0
    /\ printed' = <<>>
    /\ parseRes' = None
    /\ result' = None
    /\ failLog' = <<>>
    /\ sniffed' = <<>>
    /\ wrote' = <<>>
    /\ removeCalls' = 0
    /\ UNCHANGED <<inputs, textFile, outDir, scratch, faults>>

NextTwice == Next \/ Rerun

SpecTwice == InitTwice /\ [][NextTwice]_vars

\* ---- properties -----------------------------------------------------------
ParseCalled == parseRes.st # "none" \/ pc \notin {"main", "exit"}

OutputsUntouched == textFile = TextFile0(world) /\ outDir = OutDir0(world)

FailedOps == { failLog[k].op : k \in DOMAIN failLog }

\* a directory entry, by its stored name
NamesDirectory(e) == e.name[Len(e.name)] = "/"

\* an entry the loop reaches whose bytes are an HTML document
IsHtmlEntry(e) ==
    /\ EnclosedName(e.name)
    /\ ~NamesDirectory(e)
    /\ e.bytes # <<>>
    /\ e.bytes[1] = "<html>"

HtmlIdx == { k \in 0..(Len(archive) - 1) : IsHtmlEntry(archive[k + 1]) }

DataOf(log) == Concat([k \in DOMAIN log |-> log[k].data])

\* what lines 126-163 write for one HTML entry when every write succeeds
Contribution(e) ==
    (IF opts.file_artifacts THEN BeginMarker(e.name) ELSE <<>>)
    \o FilteredText(Render(e.bytes, opts.output_format, opts.width))
    \o (IF opts.file_artifacts THEN EndMarker(e.name) ELSE <<>>)

RECURSIVE ExpectedTextFrom(_)
ExpectedTextFrom(k) ==
    IF k >= Len(archive) THEN <<>>
    ELSE (IF k \in HtmlIdx THEN Contribution(archive[k + 1]) ELSE <<>>)
         \o ExpectedTextFrom(k + 1)

\* C2: after parse returned Ok the output text file holds, in ascending
\* index order, what was written for exactly the HTML entries (and, when no
\* write fell short, their contributions one after the other); no directory
\* entry is handed to `file`, and no entry is handed to it twice.
C2_TextIsHtmlEntriesInOrder ==
    /\ parseRes.st = "Ok" =>
          /\ textFile.exists
          /\ textFile.data = DataOf(wrote)
          /\ \A a, b \in DOMAIN wrote : a < b => wrote[a].idx <= wrote[b].idx
          /\ { wrote[k].idx : k \in DOMAIN wrote } = HtmlIdx
          /\ faults = 0 => textFile.data = ExpectedTextFrom(0)
    /\ \A k \in DOMAIN sniffed : ~NamesDirectory(archive[sniffed[k] + 1])
    /\ \A a, b \in DOMAIN sniffed : a < b => sniffed[a] < sniffed[b]

C2_Witness ==
    /\ parseRes.st = "Ok"
    /\ Cardinality(HtmlIdx) = 2
    /\ \E k \in DOMAIN archive : NamesDirectory(archive[k])
    /\ Len(wrote) >= 2
    /\ wrote[1].idx < wrote[Len(wrote)].idx
    /\ world = "stale"

\* C3: with no file at the input path, parse returns the missing-input
\* error, main prints it, and the output text file and the output directory
\* stay exactly as they were.
C3_MissingInputLeavesOutputs ==
    inputKind = "missing" =>
        /\ OutputsUntouched
        /\ parseRes.st # "none" => parseRes = Err("Input file does not exist")
        /\ (pc \in {"cleanup", "exit"} /\ parseRes.st # "none") =>
              printed = << <<"ERROR OCCURED: ", "Input file does not exist">> >>

C3_Witness ==
    /\ inputKind = "missing"
    /\ pc = "exit"
    /\ printed = << <<"ERROR OCCURED: ", "Input file does not exist">> >>
    /\ world = "stale"

\* C4: with a file at the input path that is no zip archive, the output
\* directory is neither created nor changed, and once the file was opened
\* the run reports the archive-format error.
C4_NotZipLeavesOutputDir ==
    inputKind = "notzip" =>
        /\ outDir = OutDir0(world)
        /\ (pc \in {"cleanup", "exit"} /\ parseRes.st # "none" /\ "open" \notin FailedOps) =>
              printed = << <<"ERROR OCCURED: ", "Zip error occured">> >>

C4_Witness ==
    /\ inputKind = "notzip"
    /\ pc = "exit"
    /\ printed = << <<"ERROR OCCURED: ", "Zip error occured">> >>
    /\ ~outDir.exists

OutPath(e) == Comps(e.name)

\* C1: a run on a zip archive whose entries are all regular files, with no
\* failure of the environment, ends with every entry that is no HTML
\* document under the output directory at its relative path, byte for byte.
C1_EveryOtherEntryCopied ==
    ( /\ pc = "exit"
      /\ inputKind = "zip"
      /\ parseRes.st # "none"
      /\ faults = 0
      /\ \A k \in DOMAIN archive :
            EnclosedName(archive[k].name) /\ ~NamesDirectory(archive[k]) )
    => \A k \in DOMAIN archive :
          IsHtmlEntry(archive[k]) \/
          [path |-> OutPath(archive[k]), bytes |-> archive[k].bytes] \in outDir.files

RemovalFailed == "remove_dir_all" \in FailedOps

\* C6 as stated: whatever failed, main returns Ok.
C6_EveryRunExitsOk == pc = "exit" => result.st = "Ok"

\* C6 as amended: main returns Err exactly for an invalid width, an
\* unrecognized format token and a failed removal of the scratch directory;
\* an argument parse failure and every error of parse is printed with its
\* display text, and main itself prints nothing for the errors it returns.
C6_ExitStatus ==
    pc = "exit" =>
        /\ result.st = "Err" <=>
              (args.ok /\ args.i /\ (args.w = "x" \/ args.f = "bogus" \/ RemovalFailed))
        /\ ~args.ok => (printed = << <<HpErrorText>> >> /\ result = Ok)
        /\ parseRes.st = "Err" => printed = << <<"ERROR OCCURED: ", parseRes.msg>> >>
        /\ (args.ok /\ parseRes.st # "Err") => printed = <<>>

C6_Witness ==
    /\ pc = "exit"
    /\ parseRes.st = "Err"
    /\ result.st = "Ok"
    /\ printed = << <<"ERROR OCCURED: ", IoFaultMsg>> >>

\* parse returned an error raised after archive.extract had succeeded
FailedAfterExtract ==
    /\ parseRes.st = "Err"
    /\ FailedOps \cap {"opentext", "mkout", "by_index", "spawn", "create_dir_all",
                       "write_all", "create", "copy"} # {}

\* C7 as stated: after such an error no removal is attempted and the
\* scratch directory is still there when the process ends.
C7_NoRemovalAfterError ==
    (pc = "exit" /\ FailedAfterExtract) => (removeCalls = 0 /\ scratch.exists)

\* C7 as amended: remove_dir_all is called once after every call of parse,
\* whatever parse returned, and never without one; after an error raised
\* once the archive was extracted the scratch directory is gone when the
\* process ends, unless the removal itself failed.
C7_RemovalFollowsEveryParse ==
    /\ removeCalls = (IF pc = "exit" /\ parseRes.st # "none" THEN 1 ELSE 0)
    /\ (pc = "exit" /\ FailedAfterExtract /\ ~RemovalFailed) => ~scratch.exists
    /\ (pc = "exit" /\ parseRes.st = "none") => scratch = Scratch0(leftover)

C7_Witness ==
    /\ pc = "exit"
    /\ FailedAfterExtract
    /\ removeCalls = 1
    /\ ~scratch.exists
    /\ result = Ok

RECURSIVE ExpectedLinesFrom(_)
ExpectedLinesFrom(k) ==
    IF k >= Len(archive) THEN <<>>
    ELSE (IF k \in HtmlIdx
          THEN LET e == archive[k + 1]
                   body == DropEmpty(Lines(Render(e.bytes, opts.output_format, opts.width)))
               IN IF opts.file_artifacts
                  THEN << <<"# begin ">> \o e.name >> \o body \o << <<"# end ">> \o e.name >>
                  ELSE body
          ELSE <<>>)
         \o ExpectedLinesFrom(k + 1)

\* C8: with the artifacts flag on, the lines of the output text file are,
\* entry by entry, the line "# begin <name>", the renderer's non-empty lines
\* and the line "# end <name>"; with the flag off no marker is written.
C8_MarkersOnTheirOwnLines ==
    (parseRes.st = "Ok" /\ faults = 0) =>
        IF opts.file_artifacts
        THEN Lines(textFile.data) = ExpectedLinesFrom(0)
        ELSE \A k \in DOMAIN textFile.data : textFile.data[k] \notin {"# begin ", "# end "}

\* C9: once a call made for entry idx has failed, parse has returned an
\* error and the loop stands at idx when the process ends.
C9_EntryFailureAbortsParse ==
    pc = "exit" =>
        \A k \in DOMAIN failLog :
            failLog[k].idx >= 0 => (parseRes.st = "Err" /\ i = failLog[k].idx)

\* C10: parse runs only with one of the three formats, the unreachable arm
\* of line 149 is never taken, and an unrecognized format token ends main
\* with an error before parse is called and before any file is touched.
C10_FormatIsValidated ==
    /\ pc # "panic"
    /\ ParseCalled => opts.output_format \in Formats
    /\ (args.ok /\ args.i /\ args.f \notin (Formats \cup {"none"})) =>
          /\ ~ParseCalled
          /\ OutputsUntouched
          /\ scratch = Scratch0(leftover)
          /\ pc = "exit" => result.st = "Err"

C10_Witness ==
    /\ pc = "end"
    /\ args.f = "rich"
    /\ opts.output_format = "rich"
    /\ textFile.data # <<>>

====
